---- MODULE Spec2Model ----
(***************************************************************************)
(* The LLM proxy handler api_llm of flask-tutorial-app/app.py (POST        *)
(* /api/llm) as a state machine: one request is taken through the          *)
(* handler's steps (validate the prompt, resolve the optional fields and   *)
(* the API key, build the outbound request, call the provider and map its  *)
(* outcome to a response).                                                 *)
(*                                                                         *)
(* JSON values are records [t, s, n]: t is the JSON type, s the symbols of *)
(* a string (characters, or one opaque chunk of text), n the integer part  *)
(* of a number (its fraction digits, if any, are kept in s), the value of  *)
(* a boolean (0/1), or the length of a list whose elements are not looked  *)
(* at.                                                                     *)
(***************************************************************************)
EXTENDS Integers, Sequences, FiniteSets, TLC

VARIABLES
  request,        \* the HTTP request body as received
  environ,        \* os.environ: OPENAI_API_KEY, OPENAI_BASE_URL, OPENAI_MODEL
  pc,             \* position of the handler
  body,           \* local `body` (line 45)
  user_prompt,    \* local `user_prompt` (line 46)
  system_prompt,  \* local `system_prompt` (line 50)
  model_name,     \* local `model_name` (line 51)
  temperature,    \* local `temperature` (line 52)
  max_tokens,     \* local `max_tokens` (line 53)
  endpoint,       \* local `endpoint` (line 60)
  payload,        \* local `payload` (lines 62-70)
  calls,          \* number of urlopen calls made for this request
  outcome,        \* what the urlopen call / reading its reply produced
  response,       \* the (body, status) pair the handler returned
  raised          \* class of the exception that left the handler, or "none"

vars == <<request, environ, pc, body, user_prompt, system_prompt, model_name,
          temperature, max_tokens, endpoint, payload, calls, outcome,
          response, raised>>

----------------------------------------------------------------------------
(* Bounds of the model *)

\* longest prompt string drawn for a request body
MaxPromptLen == 2

\* longest OPENAI_BASE_URL drawn in SpecEndpoint
MaxUrlLen == 4

\* most entries in the provider's `choices` list
MaxChoices == 2

----------------------------------------------------------------------------
(* JSON values and Python's view of them *)

J(t, s, n) == [t |-> t, s |-> s, n |-> n]

\* a key that is not in a dict / a local that is not bound yet
Absent == J("absent", <<>>, 0)
JNull == J("null", <<>>, 0)
JStr(s) == J("str", s, 0)
JNum(n) == J("num", <<>>, n)
JList(n) == J("list", <<>>, n)

\* a literal of the source, kept as one opaque chunk
Text(chunk) == JStr(<<chunk>>)

\* bool(v) in Python
Truthy(v) ==
  CASE v.t = "str" -> v.s # <<>>
    [] v.t = "num" -> v.n # 0 \/ v.s # <<>>
    [] v.t = "bool" -> v.n # 0
    [] v.t = "list" -> v.n > 0
    [] OTHER -> FALSE

\* characters str.strip() and str.rstrip() without argument remove
Whitespace == {" ", "\t"}

RECURSIVE lstrip(_, _)
lstrip(s, chars) ==
  IF s # <<>> /\ Head(s) \in chars THEN lstrip(Tail(s), chars) ELSE s

RECURSIVE rstrip(_, _)
rstrip(s, chars) ==
  IF s # <<>> /\ s[Len(s)] \in chars
  THEN rstrip(SubSeq(s, 1, Len(s) - 1), chars)
  ELSE s

strip(s) == rstrip(lstrip(s, Whitespace), Whitespace)

RECURSIVE SeqsUpTo(_, _)
SeqsUpTo(S, n) ==
  IF n = 0 THEN {<<>>}
  ELSE LET shorter == SeqsUpTo(S, n - 1)
       IN  shorter \cup {Append(s, c) : s \in {q \in shorter : Len(q) = n - 1}, c \in S}

----------------------------------------------------------------------------
(* The request body and what request.get_json(silent=True) makes of it *)

Keys == {"prompt", "system", "model", "temperature", "max_tokens"}

NoFields == [k \in Keys |-> Absent]

\* kind "none": no body or not JSON content; "malformed": unparseable JSON;
\* "value": a JSON value that is not an object (held in top);
\* "object": a JSON object with the fields f (Absent: key not there)
Req(kind, top, f) == [kind |-> kind, top |-> top, f |-> f]

\* a Python value the local `body` can hold: None, a dict or another value
PyNone == [t |-> "None", v |-> JNull, f |-> NoFields]
PyDict(f) == [t |-> "dict", v |-> Absent, f |-> f]
PyOther(v) == [t |-> "other", v |-> v, f |-> NoFields]

get_json(req) ==
  CASE req.kind = "object" -> PyDict(req.f)
    [] req.kind = "value" -> PyOther(req.top)
    [] OTHER -> PyNone

PyTruthy(p) ==
  CASE p.t = "dict" -> \E k \in Keys : p.f[k] # Absent
    [] p.t = "other" -> Truthy(p.v)
    [] OTHER -> FALSE

\* x or {}
OrEmptyDict(p) == IF PyTruthy(p) THEN p ELSE PyDict(NoFields)

\* x or y, on JSON values
Or(x, y) == IF Truthy(x) THEN x ELSE y

\* d.get(k): None when the key is not there
get(d, k) == IF d.f[k] = Absent THEN JNull ELSE d.f[k]

\* d.get(k, default)
get_default(d, k, default) == IF d.f[k] = Absent THEN default ELSE d.f[k]

\* os.environ.get(k) and os.environ.get(k, default)
environ_get(env, k) == IF env[k] = Absent THEN JNull ELSE env[k]

environ_get_default(env, k, default) == IF env[k] = Absent THEN default ELSE env[k]

----------------------------------------------------------------------------
(* Responses: jsonify(...) with a status; a key not in the body is Absent *)

\* the provider's parsed reply, as far as the handler looks into it:
\* root is the type of the top value, choices the value under "choices",
\* first the type of choices[0], message the value under "message",
\* content the value under "content", rest the contents of later choices
Reply(root, choices, first, message, content, rest) ==
  [root |-> root, choices |-> choices, first |-> first, message |-> message,
   content |-> content, rest |-> rest]

NoReply == Reply("-", "-", "-", "-", Absent, <<>>)

Resp(status, error, text, model, code, details, raw) ==
  [status |-> status, error |-> error, text |-> text, model |-> model,
   code |-> code, details |-> details, raw |-> raw]

NoResponse == Resp(0, "", Absent, Absent, Absent, Absent, NoReply)

ErrorOnly(status, error) == Resp(status, error, Absent, Absent, Absent, Absent, NoReply)

MissingPrompt == ErrorOnly(400, "Missing 'prompt' in request body.")

MissingApiKey == ErrorOnly(400, "OPENAI_API_KEY is not set in the environment.")

ProviderError(code, details) ==
  Resp(502, "LLM provider returned an error", Absent, Absent, JNum(code), details, NoReply)

Unreachable(details) ==
  Resp(502, "Failed to reach LLM provider", Absent, Absent, Absent, details, NoReply)

Unexpected(details) ==
  Resp(500, "Unexpected error", Absent, Absent, Absent, details, NoReply)

NoText(raw) ==
  Resp(502, "Could not extract text from provider response", Absent, Absent, Absent, Absent, raw)

Success(text, model) == Resp(200, "", text, model, Absent, Absent, NoReply)

----------------------------------------------------------------------------
(* The pieces of api_llm *)

\* body = request.get_json(silent=True) or {}
ParseBody(req) == OrEmptyDict(get_json(req))

\* body.get('prompt') or ''
PromptOrEmpty(d) == Or(get(d, "prompt"), JStr(<<>>))

DefaultSystem == Text("You are a helpful assistant.")

DefaultModel == Text("gpt-4o-mini")

\* 0.7
DefaultTemperature == J("num", <<".7">>, 0)

DefaultMaxTokens == JNum(256)

\* 'https://api.openai.com/v1'
DefaultBaseUrl == JStr(<<"https", ":", "/", "/", "api.openai.com", "/", "v1">>)

ResolveSystem(d) == Or(get(d, "system"), DefaultSystem)

ResolveModel(d, env) ==
  Or(get(d, "model"), environ_get_default(env, "OPENAI_MODEL", DefaultModel))

\* faulty variant: `body.get('temperature') or 0.7`, which loses 0 and null
ResolveTemperatureOr(d) == Or(get(d, "temperature"), DefaultTemperature)

ResolveTemperature(d) == get_default(d, "temperature", DefaultTemperature)

ResolveMaxTokens(d) == get_default(d, "max_tokens", DefaultMaxTokens)

\* faulty variant: `api_key is None`, which lets an empty key through
ApiKeyIsNone(api_key) == api_key = JNull

\* not api_key
ApiKeyMissing(api_key) == ~Truthy(api_key)

ChatCompletions == <<"/", "chat/completions">>

\* faulty variant: only one trailing slash is removed
EndpointStripOne(base_url) ==
  JStr((IF base_url.s # <<>> /\ base_url.s[Len(base_url.s)] = "/"
        THEN SubSeq(base_url.s, 1, Len(base_url.s) - 1)
        ELSE base_url.s) \o <<"/", "chat/completions">>)

\* f"{base_url.rstrip('/')}/chat/completions"
Endpoint(base_url) == JStr(rstrip(base_url.s, {"/"}) \o ChatCompletions)

Message(role, content) == [role |-> role, content |-> content]

Payload(model, system, prompt, temp, maxtok) ==
  [model |-> model,
   messages |-> <<Message("system", system), Message("user", prompt)>>,
   temperature |-> temp,
   max_tokens |-> maxtok]

NoPayload == [model |-> Absent, messages |-> <<>>, temperature |-> Absent, max_tokens |-> Absent]

\* urllib.request.Request(endpoint, ...) raises ValueError ("unknown url type")
\* unless the URL starts with a scheme: one or more symbols other than "/"
\* and ":", followed by ":"
HasScheme(url) ==
  \E i \in 2..Len(url.s) :
    /\ url.s[i] = ":"
    /\ \A j \in 1..(i - 1) : url.s[j] \notin {"/", ":"}

----------------------------------------------------------------------------
(* The provider: what urlopen(req, timeout=60), resp.read() and json.loads *)
(* can produce                                                             *)

\* kind "reply": a 2xx response whose body parsed to `json`;
\* kind "not_json": a 2xx response whose body is not UTF-8 JSON;
\* kind "http_error": a response with the non-2xx status `code`, whose body is
\*   err_body (Absent: reading or decoding it fails);
\* kind "failure": no HTTP response was received, because of `failure`
Outcome(kind, failure, code, err_body, json) ==
  [kind |-> kind, failure |-> failure, code |-> code, err_body |-> err_body, json |-> json]

NoOutcome == Outcome("none", "-", 0, Absent, NoReply)

\* failures before any HTTP response is received
TransportFailures == {"dns", "refused", "connect_timeout", "tls", "read_timeout"}

\* The exception the try block (lines 84-86) ends with, "none" when it ends
\* normally. urlopen wraps the OSError of resolving, connecting, the TLS
\* handshake and sending in URLError; a timeout while waiting for the
\* response comes from getresponse() and is not wrapped.
ExceptionClass(o) ==
  CASE o.kind = "http_error" -> "HTTPError"
    [] o.kind = "failure" ->
         IF o.failure = "read_timeout" THEN "TimeoutError" ELSE "URLError"
    [] o.kind = "not_json" -> "JSONDecodeError"
    [] OTHER -> "none"

\* HTTPError is a subclass of URLError
IsURLError(cls) == cls \in {"URLError", "HTTPError"}

\* str(e)
StrOfException(o) ==
  CASE o.kind = "http_error" -> Text("HTTP Error")
    [] o.kind = "failure" -> Text(o.failure)
    [] OTHER -> Text("Expecting value")

\* lines 88-91
ErrBody(o) == IF o.err_body = Absent THEN StrOfException(o) ELSE o.err_body

\* faulty variant: `except URLError` placed before `except HTTPError`
MapExceptionURLErrorFirst(o) ==
  IF IsURLError(ExceptionClass(o)) THEN Unreachable(StrOfException(o))
  ELSE IF ExceptionClass(o) = "HTTPError" THEN ProviderError(o.code, ErrBody(o))
  ELSE Unexpected(StrOfException(o))

\* the except clauses, lines 87-103, in their order
MapException(o) ==
  IF ExceptionClass(o) = "HTTPError" THEN ProviderError(o.code, ErrBody(o))
  ELSE IF IsURLError(ExceptionClass(o)) THEN Unreachable(StrOfException(o))
  ELSE Unexpected(StrOfException(o))

\* faulty variant: the last choice is read instead of the first
ExtractLastChoice(resp_json) ==
  IF resp_json.root # "dict" \/ resp_json.choices # "list" \/ resp_json.first # "dict"
     \/ resp_json.message # "dict" \/ resp_json.content = Absent
  THEN JNull
  ELSE IF resp_json.rest # <<>> THEN resp_json.rest[Len(resp_json.rest)]
  ELSE resp_json.content

\* lines 106-112: choices[0]['message']['content'], None when the guard of
\* line 109 is false or anything in the try block raises
ExtractText(resp_json) ==
  IF resp_json.root # "dict" THEN JNull              \* no .get: AttributeError
  ELSE IF resp_json.choices # "list" THEN JNull      \* falsy, or [0] / `in` fails or is false
  ELSE IF resp_json.first # "dict" THEN JNull        \* `in` is false or raises, or ['message'] raises
  ELSE IF resp_json.message # "dict" THEN JNull      \* key missing, `in` is false or raises, or ['content'] raises
  ELSE IF resp_json.content = Absent THEN JNull      \* 'content' not in message
  ELSE resp_json.content

\* lines 114-123
Extraction(resp_json, model) ==
  IF ~Truthy(ExtractText(resp_json)) THEN NoText(resp_json)
  ELSE Success(ExtractText(resp_json), model)

----------------------------------------------------------------------------
(* Inputs *)

PromptChars == {" ", "a"}

\* prompt: every string up to MaxPromptLen, null, numbers and a list
PromptValues ==
  {JStr(q) : q \in SeqsUpTo(PromptChars, MaxPromptLen)}
    \cup {Absent, JNull, JNum(0), JNum(5), JList(1)}

SystemValues == {Absent, JNull, JStr(<<>>), Text("Be brief.")}

ModelValues == {Absent, JNum(0), JStr(<<>>), Text("gpt-4o")}

TemperatureValues == {Absent, JNull, JNum(0), JNum(1)}

MaxTokensValues == {Absent, JNum(0), JNum(64)}

Objects ==
  {[prompt |-> p, system |-> sy, model |-> m, temperature |-> t, max_tokens |-> mt] :
     p \in PromptValues, sy \in SystemValues, m \in ModelValues,
     t \in TemperatureValues, mt \in MaxTokensValues}

\* JSON bodies that are not objects: [], [x], "abc"
TopValues == {JList(0), JList(1), Text("abc")}

Requests ==
  {Req("none", Absent, NoFields), Req("malformed", Absent, NoFields)}
    \cup {Req("value", v, NoFields) : v \in TopValues}
    \cup {Req("object", Absent, f) : f \in Objects}

Env(key, base, model) ==
  [OPENAI_API_KEY |-> key, OPENAI_BASE_URL |-> base, OPENAI_MODEL |-> model]

ApiKeys == {Absent, JStr(<<>>), Text("sk-key")}

EnvModels == {Absent, JStr(<<>>), Text("env-model")}

\* unset, "https://x/v1/" and "x/v1" (the scheme forgotten)
BaseUrls ==
  {Absent,
   JStr(<<"https", ":", "/", "/", "x", "/", "v1", "/">>),
   JStr(<<"x", "/", "v1">>)}

Environs == {Env(k, b, m) : k \in ApiKeys, b \in BaseUrls, m \in EnvModels}

UrlChars == {"h", ":", "/"}

\* every OPENAI_BASE_URL of up to MaxUrlLen symbols, and those of BaseUrls
AllBaseUrls == {JStr(u) : u \in SeqsUpTo(UrlChars, MaxUrlLen)} \cup BaseUrls

HttpErrors ==
  {Outcome("http_error", "-", c, b, NoReply) :
     c \in {429, 500}, b \in {Text("rate limited"), Absent}}

Failures == {Outcome("failure", f, 0, Absent, NoReply) : f \in TransportFailures}

Contents == {Absent, JNull, JStr(<<>>), Text("hello"), JNum(42), JList(1)}

\* the contents of the choices after the first
Rests == SeqsUpTo({Text("other")}, MaxChoices - 1)

\* parsed provider bodies, by how far choices[0].message.content can be followed
Replies ==
  {Reply(r, "-", "-", "-", Absent, <<>>) : r \in {"list", "str", "null"}}
    \cup {Reply("dict", c, "-", "-", Absent, <<>>) :
            c \in {"absent", "null", "empty", "str", "num", "dict"}}
    \cup {Reply("dict", "list", f, "-", Absent, <<>>) : f \in {"str", "num", "null", "list"}}
    \cup {Reply("dict", "list", "dict", m, Absent, <<>>) :
            m \in {"absent", "null", "num", "str", "str_content", "list_content"}}
    \cup {Reply("dict", "list", "dict", "dict", c, rest) : c \in Contents, rest \in Rests}

Outcomes ==
  HttpErrors \cup Failures
    \cup {Outcome("not_json", "-", 200, Absent, NoReply)}
    \cup {Outcome("reply", "-", 200, Absent, j) : j \in Replies}

----------------------------------------------------------------------------
(* The handler as a state machine *)

Fresh ==
  /\ pc = "start"
  /\ body = PyNone
  /\ user_prompt = Absent
  /\ system_prompt = Absent
  /\ model_name = Absent
  /\ temperature = Absent
  /\ max_tokens = Absent
  /\ endpoint = Absent
  /\ payload = NoPayload
  /\ calls = 0
  /\ outcome = NoOutcome
  /\ response = NoResponse
  /\ raised = "none"

Init ==
  /\ request \in Requests
  /\ environ \in Environs
  /\ Fresh

\* one well-formed request under every OPENAI_BASE_URL
InitEndpoint ==
  /\ request = Req("object", Absent, [NoFields EXCEPT !["prompt"] = Text("hi")])
  /\ environ \in {Env(Text("sk-key"), b, Absent) : b \in AllBaseUrls}
  /\ Fresh

\* return jsonify(...), status
Return(resp) == pc' = "done" /\ response' = resp /\ raised' = raised

\* an exception no except clause of the handler catches
Raise(cls) == pc' = "raised" /\ raised' = cls /\ response' = response

Goto(label) == pc' = label /\ UNCHANGED <<response, raised>>

\* lines 45-48
Validate ==
  /\ pc = "start"
  /\ body' = ParseBody(request)
  /\ IF body'.t # "dict"
     THEN \* body.get: a list, str or number has no attribute 'get'
          UNCHANGED user_prompt /\ Raise("AttributeError")
     ELSE IF PromptOrEmpty(body').t # "str"
     THEN \* .strip(): a number, list or True has no attribute 'strip'
          UNCHANGED user_prompt /\ Raise("AttributeError")
     ELSE /\ user_prompt' = JStr(strip(PromptOrEmpty(body').s))
          /\ IF ~Truthy(user_prompt') THEN Return(MissingPrompt) ELSE Goto("resolve")
  /\ UNCHANGED <<request, environ, system_prompt, model_name, temperature,
                 max_tokens, endpoint, payload, calls, outcome>>

\* lines 50-57
Resolve ==
  /\ pc = "resolve"
  /\ system_prompt' = ResolveSystem(body)
  /\ model_name' = ResolveModel(body, environ)
  /\ temperature' = ResolveTemperature(body)
  /\ max_tokens' = ResolveMaxTokens(body)
  /\ IF ApiKeyMissing(environ_get(environ, "OPENAI_API_KEY"))
     THEN Return(MissingApiKey)
     ELSE Goto("build")
  /\ UNCHANGED <<request, environ, body, user_prompt, endpoint, payload, calls, outcome>>

\* lines 59-81
Build ==
  /\ pc = "build"
  /\ endpoint' = Endpoint(environ_get_default(environ, "OPENAI_BASE_URL", DefaultBaseUrl))
  /\ payload' = Payload(model_name, system_prompt, user_prompt, temperature, max_tokens)
  /\ IF HasScheme(endpoint') THEN Goto("call") ELSE Raise("ValueError")
  /\ UNCHANGED <<request, environ, body, user_prompt, system_prompt, model_name,
                 temperature, max_tokens, calls, outcome>>

\* lines 83-103
CallProvider ==
  /\ pc = "call"
  /\ \E o \in Outcomes :
       /\ outcome' = o
       /\ IF ExceptionClass(o) # "none" THEN Return(MapException(o)) ELSE Goto("extract")
  /\ calls' = calls + 1
  /\ UNCHANGED <<request, environ, body, user_prompt, system_prompt, model_name,
                 temperature, max_tokens, endpoint, payload>>

\* lines 105-123
Extract ==
  /\ pc = "extract"
  /\ Return(Extraction(outcome.json, model_name))
  /\ UNCHANGED <<request, environ, body, user_prompt, system_prompt, model_name,
                 temperature, max_tokens, endpoint, payload, calls, outcome>>

Next == Validate \/ Resolve \/ Build \/ CallProvider \/ Extract

Spec == Init /\ [][Next]_vars

SpecEndpoint == InitEndpoint /\ [][Next]_vars

\* the request is over: a response was returned or an exception left the handler
Terminated == pc \in {"done", "raised"}

----------------------------------------------------------------------------
(* Vocabulary of the claims *)

\* the request carries a prompt that is a string with a non-whitespace character
ValidPrompt(req) ==
  /\ req.kind = "object"
  /\ req.f.prompt.t = "str"
  /\ \E i \in 1..Len(req.f.prompt.s) : req.f.prompt.s[i] \notin {" ", "\t"}

\* the request carries no prompt, or one that is empty or only whitespace
NoPrompt(req) ==
  \/ req.kind # "object"
  \/ req.f.prompt = Absent
  \/ /\ req.f.prompt.t = "str"
     /\ \A i \in 1..Len(req.f.prompt.s) : req.f.prompt.s[i] \in {" ", "\t"}

KeyUnsetOrEmpty(env) == env.OPENAI_API_KEY \in {Absent, JStr(<<>>)}

\* OPENAI_MODEL when set, else "gpt-4o-mini"
ConfiguredModel(env) ==
  IF env.OPENAI_MODEL # Absent THEN env.OPENAI_MODEL ELSE Text("gpt-4o-mini")

\* the field is in the body with a value Python takes as true
\* (not null, not the empty string, not zero)
Given(req, k) == req.f[k] # Absent /\ Truthy(req.f[k])

\* choices[0].message.content can be followed to a value
HasContent(j) ==
  /\ j.root = "dict" /\ j.choices = "list" /\ j.first = "dict" /\ j.message = "dict"
  /\ j.content # Absent

\* t is p without its leading and trailing whitespace
IsTrimOf(t, p) ==
  \E i \in 1..(Len(p) + 1) : \E j \in 0..Len(p) :
    /\ t = SubSeq(p, i, j)
    /\ \A k \in 1..(i - 1) : p[k] \in {" ", "\t"}
    /\ \A k \in (j + 1)..Len(p) : p[k] \in {" ", "\t"}
    /\ t # <<>> => (t[1] \notin {" ", "\t"} /\ t[Len(t)] \notin {" ", "\t"})

\* sub occurs in s as a contiguous run
Contains(s, sub) ==
  \E i \in 1..(Len(s) - Len(sub) + 1) : SubSeq(s, i, i + Len(sub) - 1) = sub

----------------------------------------------------------------------------
(* C1 *)

\* C1: a request without a prompt (absent, empty or whitespace-only, or a body
\* that is absent, unparseable or carries no prompt at all) ends with 400 and
\* exactly {"error": "Missing 'prompt' in request body."}, whatever the
\* environment, and no outbound call is made.
C1_MissingPromptRejected ==
  NoPrompt(request) =>
    /\ calls = 0
    /\ Terminated =>
         /\ pc = "done"
         /\ response = Resp(400, "Missing 'prompt' in request body.",
                            Absent, Absent, Absent, Absent, NoReply)

----------------------------------------------------------------------------
(* C2 *)

\* C2: with a valid prompt and OPENAI_API_KEY unset or empty, the request ends
\* with 400 and exactly {"error": "OPENAI_API_KEY is not set in the
\* environment."}, and no outbound call is made.
C2_MissingApiKeyRejected ==
  (ValidPrompt(request) /\ KeyUnsetOrEmpty(environ)) =>
    /\ calls = 0
    /\ pc \in {"start", "resolve", "done"}
    /\ pc = "done" =>
         response = Resp(400, "OPENAI_API_KEY is not set in the environment.",
                         Absent, Absent, Absent, Absent, NoReply)

C2_Witness ==
  /\ pc = "done"
  /\ ValidPrompt(request)
  /\ environ.OPENAI_API_KEY = JStr(<<>>)
  /\ response.status = 400
  /\ calls = 0

----------------------------------------------------------------------------
(* C3 *)

\* C3: when the provider answers 2xx with JSON whose choices[0].message.content
\* is a non-empty string c, the response is 200 with exactly {"text": c,
\* "model": m}: m is the body's model when one is given (a non-empty value),
\* else OPENAI_MODEL when set, else "gpt-4o-mini"; later choices play no part.
C3_SuccessRelaysFirstChoice ==
  (/\ pc = "done"
   /\ outcome.kind = "reply"
   /\ HasContent(outcome.json)
   /\ outcome.json.content.t = "str"
   /\ outcome.json.content.s # <<>>) =>
    response = Resp(200, "", outcome.json.content,
                    IF Given(request, "model") THEN request.f.model
                    ELSE ConfiguredModel(environ),
                    Absent, Absent, NoReply)

C3_Witness ==
  /\ pc = "done"
  /\ outcome.kind = "reply"
  /\ outcome.json.content = Text("hello")
  /\ outcome.json.rest # <<>>
  /\ request.f.model = Absent
  /\ environ.OPENAI_MODEL = Text("env-model")
  /\ response.status = 200
  /\ response.text = Text("hello")
  /\ response.model = Text("env-model")

----------------------------------------------------------------------------
(* C4 *)

\* C4: when the provider answers with a non-2xx status s and body b, the
\* response is 502 with exactly {"error": "LLM provider returned an error",
\* "status": s, "details": b}, b as received, or str(e) when b cannot be read.
C4_ProviderErrorMapped ==
  (pc = "done" /\ outcome.kind = "http_error") =>
    response = Resp(502, "LLM provider returned an error", Absent, Absent,
                    JNum(outcome.code),
                    IF outcome.err_body # Absent THEN outcome.err_body
                    ELSE StrOfException(outcome),
                    NoReply)

C4_Witness ==
  /\ pc = "done"
  /\ outcome.kind = "http_error"
  /\ outcome.code = 429
  /\ outcome.err_body = Text("rate limited")
  /\ response.status = 502
  /\ response.code = JNum(429)
  /\ response.details = Text("rate limited")

----------------------------------------------------------------------------
(* C5 *)

\* C5: when the call fails before any HTTP response is received (DNS,
\* connection refused, timeout, TLS), the response is 502 with "error":
\* "Failed to reach LLM provider" and a "details" text; never 500, never the
\* provider-error response.
C5_TransportFailureIs502 ==
  (Terminated /\ outcome.kind = "failure") =>
    /\ pc = "done"
    /\ response.status = 502
    /\ response.error = "Failed to reach LLM provider"
    /\ response.details # Absent

----------------------------------------------------------------------------
(* C6 *)

\* C6: when the provider answers 2xx with parseable JSON in which
\* choices[0].message.content cannot be read as text (a key missing, an empty
\* list, a wrong type at any level, the content value included), the response
\* is 502 with "error": "Could not extract text from provider response" and
\* "raw" the parsed body; never 200, never 500.
C6_ExtractionFailureIs502 ==
  (/\ Terminated
   /\ outcome.kind = "reply"
   /\ ~(HasContent(outcome.json) /\ outcome.json.content.t = "str")) =>
    /\ pc = "done"
    /\ response = Resp(502, "Could not extract text from provider response",
                       Absent, Absent, Absent, Absent, outcome.json)

----------------------------------------------------------------------------
(* C7 *)

\* C7: the endpoint is OPENAI_BASE_URL (or "https://api.openai.com/v1" when
\* unset) without its trailing slashes, followed by "/chat/completions": what
\* was cut from the base URL is only slashes, the kept part does not end in a
\* slash, and "//chat/completions" never occurs in the endpoint.
C7_EndpointNormalized ==
  endpoint # Absent =>
    LET b == IF environ.OPENAI_BASE_URL = Absent
             THEN <<"https", ":", "/", "/", "api.openai.com", "/", "v1">>
             ELSE environ.OPENAI_BASE_URL.s
        e == endpoint.s
        n == Len(e) - 2
    IN  /\ n >= 0
        /\ SubSeq(e, n + 1, n + 2) = <<"/", "chat/completions">>
        /\ n <= Len(b)
        /\ SubSeq(e, 1, n) = SubSeq(b, 1, n)
        /\ \A i \in (n + 1)..Len(b) : b[i] = "/"
        /\ n > 0 => e[n] # "/"
        /\ ~Contains(e, <<"/", "/", "chat/completions">>)
        /\ environ.OPENAI_BASE_URL = Absent =>
             e = <<"https", ":", "/", "/", "api.openai.com", "/", "v1",
                   "/", "chat/completions">>

C7_Witness ==
  /\ environ.OPENAI_BASE_URL = JStr(<<"https", ":", "/", "/", "x", "/", "v1", "/">>)
  /\ endpoint = JStr(<<"https", ":", "/", "/", "x", "/", "v1", "/", "chat/completions">>)
  /\ pc = "call"

----------------------------------------------------------------------------
(* C8 *)

\* C8: a request issues at most one outbound call: exactly one when the prompt
\* check and the API-key check both pass, none otherwise; no failure of the
\* call is followed by a second call.
C8_ExactlyOneCall ==
  /\ calls <= 1
  /\ Terminated =>
       calls = IF ValidPrompt(request) /\ ~KeyUnsetOrEmpty(environ) THEN 1 ELSE 0

----------------------------------------------------------------------------
(* C9 *)

\* C9: every request, whatever its body, the environment and the provider,
\* ends with a JSON response of the handler whose status is 200, 400, 502 or
\* 500; no exception leaves the handler.
C9_AlwaysJsonResponse ==
  Terminated =>
    /\ pc = "done"
    /\ raised = "none"
    /\ response.status \in {200, 400, 502, 500}

----------------------------------------------------------------------------
(* C10 *)

\* C10 as stated: in the outbound payload each of system, model, temperature
\* and max_tokens is the body's value whenever the field is present (whatever
\* the value), the default only when it is absent; messages is the system
\* message followed by the user message with the trimmed prompt.
C10_FieldsVerbatimWhenPresent ==
  payload # NoPayload =>
    /\ payload.model = IF request.f.model # Absent THEN request.f.model
                       ELSE ConfiguredModel(environ)
    /\ Len(payload.messages) = 2
    /\ payload.messages[1].role = "system"
    /\ payload.messages[1].content =
         IF request.f.system # Absent THEN request.f.system
         ELSE Text("You are a helpful assistant.")
    /\ payload.messages[2].role = "user"
    /\ IsTrimOf(payload.messages[2].content.s, request.f.prompt.s)
    /\ payload.temperature = IF request.f.temperature # Absent THEN request.f.temperature
                             ELSE J("num", <<".7">>, 0)
    /\ payload.max_tokens = IF request.f.max_tokens # Absent THEN request.f.max_tokens
                            ELSE JNum(256)

\* C10 amended: temperature and max_tokens are the body's value whenever the
\* field is present (zero and null included) and 0.7 / 256 only when absent;
\* system and model are the body's value only when it is present and not
\* null, empty or zero, and otherwise "You are a helpful assistant." / the
\* configured default model; messages is the system message followed by the
\* user message with the trimmed prompt.
C10_FieldsResolved ==
  payload # NoPayload =>
    /\ payload.model = IF Given(request, "model") THEN request.f.model
                       ELSE ConfiguredModel(environ)
    /\ Len(payload.messages) = 2
    /\ payload.messages[1].role = "system"
    /\ payload.messages[1].content =
         IF Given(request, "system") THEN request.f.system
         ELSE Text("You are a helpful assistant.")
    /\ payload.messages[2].role = "user"
    /\ IsTrimOf(payload.messages[2].content.s, request.f.prompt.s)
    /\ payload.temperature = IF request.f.temperature # Absent THEN request.f.temperature
                             ELSE J("num", <<".7">>, 0)
    /\ payload.max_tokens = IF request.f.max_tokens # Absent THEN request.f.max_tokens
                            ELSE JNum(256)

C10_Witness ==
  /\ pc = "call"
  /\ request.f.system = JStr(<<>>)
  /\ request.f.temperature = JNum(0)
  /\ request.f.max_tokens = Absent
  /\ request.f.prompt = JStr(<<" ", "a">>)
  /\ payload.messages[1].content = Text("You are a helpful assistant.")
  /\ payload.messages[2].content = JStr(<<"a">>)
  /\ payload.temperature = JNum(0)
  /\ payload.max_tokens = JNum(256)

====
